---- MODULE Spec2Model ----
(***************************************************************************)
(* Fibonacci arithmetizations of halo2-examples.                           *)
(*                                                                         *)
(*   wide layout   : src/src/example1.rs  (three advice columns a, b, c)   *)
(*   narrow layout : src/src/fibo2.rs     (one advice column)              *)
(*                                                                         *)
(* One behaviour is one MockProver run of one circuit: configure, then     *)
(* synthesize (one step per layouter / region call), then the              *)
(* satisfiability check.  The state is the constraint system being built   *)
(* (columns, equality-enabled columns, gates, selector rows, copy          *)
(* constraints), the advice assignment, and the local variables of         *)
(* synthesize / assign.                                                    *)
(*                                                                         *)
(* Field elements are residues modulo FieldP (pasta::Fp has a 255-bit      *)
(* modulus; only + and - are used by the circuits).  The circuit-size      *)
(* parameter k is taken large enough for every row the layouts use.        *)
(***************************************************************************)
EXTENDS Integers, Sequences, FiniteSets, TLC

\* ---------------------------------------------------------------- bounds
FieldP == 67
MaxSeed == 1
MaxRows == 10

\* ------------------------------------------------------ program constants
LoopFrom == 3
LoopTo == 10
WideOutRow == 2
NarrowOutRow == 2
DemoRows == 10

Field == 0 .. (FieldP - 1)
SeedVals == 0 .. MaxSeed
RowsSet == 0 .. MaxRows

Add(x, y) == (x + y) % FieldP
Sub(x, y) == (x - y + FieldP) % FieldP

VARIABLES
    layout,     \* "wide" (example1.rs) or "narrow" (fibo2.rs)
    pc,         \* position in MockProver::run: configure, synthesize steps, check
    wit_a,      \* MyCircuit.a  (wide)
    wit_b,      \* MyCircuit.b  (wide)
    rows,       \* the `rows` argument of FiboChip::assign (narrow)
    publics,    \* the public input vector, rows 0..2 at indices 1..3
    columns,    \* advice columns declared by configure
    equality,   \* columns with enable_equality
    gates,      \* gates registered by create_gate
    selector,   \* absolute rows on which the selector is enabled
    advice,     \* assignment: function from assigned advice cells to values
    writes,     \* per cell, how many times it has been assigned
    copies,     \* copy constraints <<from cell, to cell>>
    regions,    \* regions opened so far: [name, start, offs]
    pre_b,      \* wide: handle of the previous row's b (after the window slides)
    pre_c,      \* wide: handle of the previous row's c
    a_cell,     \* narrow: handle a_cell of assign
    b_cell,     \* narrow: handle b_cell of assign
    i,          \* wide: loop variable _i of `for _i in 3..10`
    n,          \* narrow: loop variable n of `for n in 2..rows`
    result      \* outcome of the satisfiability check: "none", "pass", "fail"

vars == << layout, pc, wit_a, wit_b, rows, publics, columns, equality, gates,
           selector, advice, writes, copies, regions, pre_b, pre_c, a_cell,
           b_cell, i, n, result >>

\* the inputs of a run and the loop-independent part of the state
inputs == << layout, wit_a, wit_b, rows, publics >>
config == << columns, equality, gates >>

\* ------------------------------------------------------------- cells
InstCol == "instance"
Cell(col, row) == << col, row >>
InstCell(row) == << InstCol, row >>
NoHandle == [cell |-> << "none", 0 >>, value |-> 0]
Handle(c, v) == [cell |-> c, value |-> v]

EmptyFn == [x \in {} |-> 0]
Put(f, k, v) == [x \in (DOMAIN f) \cup {k} |-> IF x = k THEN v ELSE f[x]]
Bump(f, k) == [x \in (DOMAIN f) \cup {k} |->
                 IF x = k THEN (IF k \in DOMAIN f THEN f[k] + 1 ELSE 1) ELSE f[x]]

SetMax(S) == CHOOSE m \in S : \A x \in S : x <= m

\* ---------------------------------------------- the layouter (SimpleFloorPlanner)
\* rows a region occupies: offsets 0 .. max offset used
RegionHeight(r) == IF r.offs = {} THEN 0 ELSE SetMax(r.offs) + 1

\* slip: every region is placed at row 0
NextFreeRow_zero(rs) == 0

\* a new region starts at the first row below every earlier region
\* (every region of either layout uses all the advice columns of its layout)
NextFreeRow(rs) ==
    IF rs = << >> THEN 0 ELSE rs[Len(rs)].start + RegionHeight(rs[Len(rs)])

OpenRegion(rs, name) ==
    Append(rs, [name |-> name, start |-> NextFreeRow(rs), offs |-> {}])

CurStart(rs) == rs[Len(rs)].start

Touch(rs, off) == [rs EXCEPT ![Len(rs)].offs = @ \cup {off}]

\* ------------------------------------------------------------- the gate
\* vec![s * (a + b - c)] with the three advice queries <<column, rotation>>
WideGate ==
    [name |-> "add", a |-> << "a", 0 >>, b |-> << "b", 0 >>, c |-> << "c", 0 >>]

NarrowGate ==
    [name |-> "add", a |-> << "advice", 0 >>, b |-> << "advice", 1 >>,
     c |-> << "advice", 2 >>]

\* the cell a query reads when the gate is instantiated at absolute row r
Queried(q, r) == Cell(q[1], r + q[2])

\* s * (a + b - c) at an enabled row, over the assignment adv
GatePoly(g, r, adv) ==
    Sub(Add(adv[Queried(g.a, r)], adv[Queried(g.b, r)]), adv[Queried(g.c, r)])

\* ------------------------------------------------- values computed by the chips
first_c_val(x, y) == Add(x, y)

\* slip: the sum takes the previous c twice
row_c_val_twice(pb, pcv) == Add(pcv, pcv)

row_c_val(pb, pcv) == Add(pcv, pb)

narrow_c_val(av, bv) == Add(av, bv)

\* slip: an inclusive range, `3..=10`
loop_inclusive(k) == k < LoopTo + 1

\* `for _i in 3..10`: the loop body runs while _i < 10
loop_continues(k) == k < LoopTo

\* slip: the selector stops one row early, `n < rows - 3`
selector_cond_short(k, r) == k < r - 3

\* `if n < rows - 2` (only evaluated for 2 <= n < rows, so rows - 2 >= 1)
selector_cond(k, r) == k < r - 2

\* slip: assign_advice with the handle's value, no constraint
copy_advice_plain(h, cell) == {}

\* slip: the copy is wired to this row's own c cell, assigned later
copy_advice_forward(h, cell) == { << Cell("c", cell[2]), cell >> }

\* AssignedCell::copy_advice: the new cell is constrained equal to the handle's cell
copy_advice(h, cell) == { << h.cell, cell >> }

\* Region::assign_advice_from_instance: the new cell is constrained equal to
\* the instance cell it was read from
from_instance(row, cell) == { << InstCell(row), cell >> }

\* slip: the exposure is dropped
constrain_instance_dropped(cell, row) == {}

\* Layouter::constrain_instance(cell, instance, row)
constrain_instance(cell, row) == { << cell, InstCell(row) >> }

\* --------------------------------------------------------------- Init
Init ==
    /\ layout \in {"wide", "narrow"}
    /\ pc = "configure"
    /\ wit_a \in (IF layout = "wide" THEN SeedVals ELSE {0})
    /\ wit_b \in (IF layout = "wide" THEN SeedVals ELSE {0})
    /\ rows \in (IF layout = "narrow" THEN RowsSet ELSE {0})
    /\ publics \in { << x, y, z >> : x \in SeedVals, y \in SeedVals, z \in Field }
    /\ columns = {}
    /\ equality = {}
    /\ gates = {}
    /\ selector = {}
    /\ advice = EmptyFn
    /\ writes = EmptyFn
    /\ copies = {}
    /\ regions = << >>
    /\ pre_b = NoHandle
    /\ pre_c = NoHandle
    /\ a_cell = NoHandle
    /\ b_cell = NoHandle
    /\ i = 0
    /\ n = 0
    /\ result = "none"

\* ------------------------------------------------- wide layout: example1.rs
\* MyCircuit::configure + FiboChip::configure
configure_wide ==
    /\ pc = "configure"
    /\ layout = "wide"
    /\ columns' = {"a", "b", "c"}
    /\ equality' = {"a", "b", "c", InstCol}
    /\ gates' = {WideGate}
    /\ pc' = "first_row"
    /\ UNCHANGED << inputs, selector, advice, writes, copies, regions, pre_b,
                    pre_c, a_cell, b_cell, i, n, result >>

\* assign_first_row: open the region, selector.enable(region, 0)
first_row_enable ==
    /\ pc = "first_row"
    /\ regions' = Touch(OpenRegion(regions, "first row"), 0)
    /\ selector' = selector \cup {NextFreeRow(regions) + 0}
    /\ pc' = "first_row_a"
    /\ UNCHANGED << inputs, config, advice, writes, copies, pre_b, pre_c,
                    a_cell, b_cell, i, n, result >>

\* assign_first_row: assign_advice("a", advice[0], 0, a)
first_row_a ==
    /\ pc = "first_row_a"
    /\ LET cell == Cell("a", CurStart(regions) + 0) IN
         /\ advice' = Put(advice, cell, wit_a)
         /\ writes' = Bump(writes, cell)
    /\ regions' = Touch(regions, 0)
    /\ pc' = "first_row_b"
    /\ UNCHANGED << inputs, config, selector, copies, pre_b, pre_c, a_cell,
                    b_cell, i, n, result >>

\* assign_first_row: assign_advice("b", advice[1], 0, b)
first_row_b ==
    /\ pc = "first_row_b"
    /\ LET cell == Cell("b", CurStart(regions) + 0) IN
         /\ advice' = Put(advice, cell, wit_b)
         /\ writes' = Bump(writes, cell)
         /\ pre_b' = Handle(cell, wit_b)
    /\ regions' = Touch(regions, 0)
    /\ pc' = "first_row_c"
    /\ UNCHANGED << inputs, config, selector, copies, pre_c, a_cell, b_cell,
                    i, n, result >>

\* assign_first_row: c_val = a + b; assign_advice("c", advice[2], 0, c_val);
\* synthesize binds (_, pre_b, pre_c) and enters `for _i in 3..10`
first_row_c ==
    /\ pc = "first_row_c"
    /\ LET cell == Cell("c", CurStart(regions) + 0)
           cv == first_c_val(wit_a, wit_b) IN
         /\ advice' = Put(advice, cell, cv)
         /\ writes' = Bump(writes, cell)
         /\ pre_c' = Handle(cell, cv)
    /\ regions' = Touch(regions, 0)
    /\ i' = LoopFrom
    /\ pc' = "loop"
    /\ UNCHANGED << inputs, config, selector, copies, pre_b, a_cell, b_cell,
                    n, result >>

\* assign_row: open the region, selector.enable(region, 0)
next_row_enable ==
    /\ pc = "loop"
    /\ loop_continues(i)
    /\ regions' = Touch(OpenRegion(regions, "next row"), 0)
    /\ selector' = selector \cup {NextFreeRow(regions) + 0}
    /\ pc' = "next_row_a"
    /\ UNCHANGED << inputs, config, advice, writes, copies, pre_b, pre_c,
                    a_cell, b_cell, i, n, result >>

\* assign_row: pre_b.copy_advice("a", region, advice[0], 0)
next_row_a ==
    /\ pc = "next_row_a"
    /\ "a" \in equality
    /\ LET cell == Cell("a", CurStart(regions) + 0) IN
         /\ advice' = Put(advice, cell, pre_b.value)
         /\ writes' = Bump(writes, cell)
         /\ copies' = copies \cup copy_advice(pre_b, cell)
    /\ regions' = Touch(regions, 0)
    /\ pc' = "next_row_b"
    /\ UNCHANGED << inputs, config, selector, pre_b, pre_c, a_cell, b_cell,
                    i, n, result >>

\* assign_row: pre_c.copy_advice("b", region, advice[1], 0)
next_row_b ==
    /\ pc = "next_row_b"
    /\ "b" \in equality
    /\ LET cell == Cell("b", CurStart(regions) + 0) IN
         /\ advice' = Put(advice, cell, pre_c.value)
         /\ writes' = Bump(writes, cell)
         /\ copies' = copies \cup copy_advice(pre_c, cell)
    /\ regions' = Touch(regions, 0)
    /\ pc' = "next_row_c"
    /\ UNCHANGED << inputs, config, selector, pre_b, pre_c, a_cell, b_cell,
                    i, n, result >>

\* assign_row: c_val = pre_b + pre_c; assign_advice("c", advice[2], 0, c_val);
\* synthesize: pre_b = pre_c; pre_c = c_cell; next _i
next_row_c ==
    /\ pc = "next_row_c"
    /\ LET cell == Cell("c", CurStart(regions) + 0)
           cv == row_c_val(pre_b.value, pre_c.value) IN
         /\ advice' = Put(advice, cell, cv)
         /\ writes' = Bump(writes, cell)
         /\ pre_b' = pre_c
         /\ pre_c' = Handle(cell, cv)
    /\ regions' = Touch(regions, 0)
    /\ i' = i + 1
    /\ pc' = "loop"
    /\ UNCHANGED << inputs, config, selector, copies, a_cell, b_cell, n,
                    result >>

\* slip: the output is exposed at instance row 0
expose_public_wide_row0 ==
    /\ pc = "loop"
    /\ ~loop_continues(i)
    /\ copies' = copies \cup constrain_instance(pre_c.cell, 0)
    /\ pc' = "check"
    /\ UNCHANGED << inputs, config, selector, advice, writes, regions, pre_b,
                    pre_c, a_cell, b_cell, i, n, result >>

\* synthesize: chip.expose_public(.., &pre_c, 2) after the loop
expose_public_wide ==
    /\ pc = "loop"
    /\ ~loop_continues(i)
    /\ pre_c.cell[1] \in equality
    /\ InstCol \in equality
    /\ copies' = copies \cup constrain_instance(pre_c.cell, WideOutRow)
    /\ pc' = "check"
    /\ UNCHANGED << inputs, config, selector, advice, writes, regions, pre_b,
                    pre_c, a_cell, b_cell, i, n, result >>

\* ------------------------------------------------- narrow layout: fibo2.rs
\* MyCircuit::configure + FiboChip::configure
configure_narrow ==
    /\ pc = "configure"
    /\ layout = "narrow"
    /\ columns' = {"advice"}
    /\ equality' = {"advice", InstCol}
    /\ gates' = {NarrowGate}
    /\ pc' = "assign"
    /\ UNCHANGED << inputs, selector, advice, writes, copies, regions, pre_b,
                    pre_c, a_cell, b_cell, i, n, result >>

\* assign: open the region; selector.enable(region, 0); selector.enable(region, 1)
assign_enable ==
    /\ pc = "assign"
    /\ regions' = Touch(Touch(OpenRegion(regions, "entire fibonacci table"), 0), 1)
    /\ selector' = selector \cup {NextFreeRow(regions) + 0, NextFreeRow(regions) + 1}
    /\ pc' = "assign_a"
    /\ UNCHANGED << inputs, config, advice, writes, copies, pre_b, pre_c,
                    a_cell, b_cell, i, n, result >>

\* assign: a_cell = assign_advice_from_instance(instance, 0, advice, 0)
assign_a ==
    /\ pc = "assign_a"
    /\ "advice" \in equality /\ InstCol \in equality
    /\ LET cell == Cell("advice", CurStart(regions) + 0) IN
         /\ advice' = Put(advice, cell, publics[0 + 1])
         /\ writes' = Bump(writes, cell)
         /\ copies' = copies \cup from_instance(0, cell)
         /\ a_cell' = Handle(cell, publics[0 + 1])
    /\ regions' = Touch(regions, 0)
    /\ pc' = "assign_b"
    /\ UNCHANGED << inputs, config, selector, pre_b, pre_c, b_cell, i, n,
                    result >>

\* assign: b_cell = assign_advice_from_instance(instance, 1, advice, 1);
\* enter `for n in 2..rows`
assign_b ==
    /\ pc = "assign_b"
    /\ "advice" \in equality /\ InstCol \in equality
    /\ LET cell == Cell("advice", CurStart(regions) + 1) IN
         /\ advice' = Put(advice, cell, publics[1 + 1])
         /\ writes' = Bump(writes, cell)
         /\ copies' = copies \cup from_instance(1, cell)
         /\ b_cell' = Handle(cell, publics[1 + 1])
    /\ regions' = Touch(regions, 1)
    /\ n' = 2
    /\ pc' = "assign_loop"
    /\ UNCHANGED << inputs, config, selector, pre_b, pre_c, a_cell, i, result >>

\* assign: one iteration of `for n in 2..rows`
assign_step ==
    /\ pc = "assign_loop"
    /\ n < rows
    /\ selector' = IF selector_cond(n, rows)
                     THEN selector \cup {CurStart(regions) + n}
                     ELSE selector
    /\ LET cell == Cell("advice", CurStart(regions) + n)
           cv == narrow_c_val(a_cell.value, b_cell.value) IN
         /\ advice' = Put(advice, cell, cv)
         /\ writes' = Bump(writes, cell)
         /\ a_cell' = b_cell
         /\ b_cell' = Handle(cell, cv)
    /\ regions' = Touch(regions, n)
    /\ n' = n + 1
    /\ UNCHANGED << inputs, config, copies, pre_b, pre_c, i, pc, result >>

\* assign returns b_cell; synthesize: chip.expose_public(.., &out_cell, 2)
expose_public_narrow ==
    /\ pc = "assign_loop"
    /\ ~(n < rows)
    /\ b_cell.cell[1] \in equality
    /\ InstCol \in equality
    /\ copies' = copies \cup constrain_instance(b_cell.cell, NarrowOutRow)
    /\ pc' = "check"
    /\ UNCHANGED << inputs, config, selector, advice, writes, regions, pre_b,
                    pre_c, a_cell, b_cell, i, n, result >>

\* ------------------------------------- the satisfiability check (MockProver)
\* value of a cell under assignment adv and public inputs inst;
\* a cell never assigned reads as zero
CellValue(cell, adv, inst) ==
    IF cell[1] = InstCol THEN inst[cell[2] + 1]
    ELSE IF cell \in DOMAIN adv THEN adv[cell] ELSE 0

\* every cell queried by an enabled gate instance has been assigned
GateCellsAssigned(g, r, adv) ==
    /\ Queried(g.a, r) \in DOMAIN adv
    /\ Queried(g.b, r) \in DOMAIN adv
    /\ Queried(g.c, r) \in DOMAIN adv

GatesHold(gs, sel, adv) ==
    \A g \in gs : \A r \in sel :
        GateCellsAssigned(g, r, adv) /\ GatePoly(g, r, adv) = 0

CopiesHold(cps, adv, inst) ==
    \A cp \in cps : CellValue(cp[1], adv, inst) = CellValue(cp[2], adv, inst)

\* pass iff every enabled gate instance evaluates to zero over assigned cells
\* and both ends of every copy constraint (instance cells included) are equal
Verify(gs, sel, cps, adv, inst) ==
    GatesHold(gs, sel, adv) /\ CopiesHold(cps, adv, inst)

\* MockProver::run(k, &circuit, vec![publics]) has synthesized; verify()
check ==
    /\ pc = "check"
    /\ result' = IF Verify(gates, selector, copies, advice, publics)
                   THEN "pass" ELSE "fail"
    /\ pc' = "done"
    /\ UNCHANGED << inputs, config, selector, advice, writes, copies, regions,
                    pre_b, pre_c, a_cell, b_cell, i, n >>

Next ==
    \/ configure_wide
    \/ first_row_enable
    \/ first_row_a
    \/ first_row_b
    \/ first_row_c
    \/ next_row_enable
    \/ next_row_a
    \/ next_row_b
    \/ next_row_c
    \/ expose_public_wide
    \/ configure_narrow
    \/ assign_enable
    \/ assign_a
    \/ assign_b
    \/ assign_step
    \/ expose_public_narrow
    \/ check

Spec == Init /\ [][Next]_vars

\* ======================================================================
\* The recurrence, as a reference: Term(x, y, k) is the k-th term (k >= 1)
\* of the sequence x, y, x+y, ... over the field.
RECURSIVE Slide(_, _, _)
Slide(x, y, k) == IF k <= 0 THEN x ELSE Slide(y, Add(x, y), k - 1)

Term(x, y, k) == Slide(x, y, k - 1)

Synthesized == pc \in {"check", "done"}
WideDone == layout = "wide" /\ pc = "done"
NarrowDone == layout = "narrow" /\ pc = "done"

\* the rows of the wide layout that carry an addition: first row + next rows
WideRows == 0 .. (LoopTo - LoopFrom)

\* ---------------------------------------------------------------- C1
\* C1: wide layout, chain length 10: the cells of addition row r hold terms
\* r+1, r+2, r+3 of the recurrence seeded by the witness (a, b), the terminal
\* handle is the c cell of the last row and holds the 10th term, and the
\* check passes when public input row 2 equals that term; seed (1,1) gives
\* 1,1,2,3,5,8,13,21,34,55 and public inputs [1,1,55] pass.
C1_WideCorrect ==
    WideDone =>
        /\ \A r \in WideRows :
              /\ Cell("a", r) \in DOMAIN advice
              /\ Cell("b", r) \in DOMAIN advice
              /\ Cell("c", r) \in DOMAIN advice
              /\ advice[Cell("a", r)] = Term(wit_a, wit_b, r + 1)
              /\ advice[Cell("b", r)] = Term(wit_a, wit_b, r + 2)
              /\ advice[Cell("c", r)] = Term(wit_a, wit_b, r + 3)
        /\ pre_c.value = Term(wit_a, wit_b, LoopTo)
        /\ pre_c.cell \in DOMAIN advice
        /\ advice[pre_c.cell] = pre_c.value
        /\ (publics[3] = Term(wit_a, wit_b, LoopTo) => result = "pass")
        /\ (wit_a = 1 /\ wit_b = 1) =>
              /\ << advice[Cell("a", 0)], advice[Cell("b", 0)] >>
                   \o [r \in 1 .. 8 |-> advice[Cell("c", r - 1)]]
                   = << 1, 1, 2, 3, 5, 8, 13, 21, 34, 55 >>
              /\ (publics = << 1, 1, 55 >> => result = "pass")

C1_Witness ==
    /\ WideDone
    /\ wit_a = 1 /\ wit_b = 1
    /\ publics = << 1, 1, 55 >>
    /\ pre_c.value = 55
    /\ result = "pass"

\* ---------------------------------------------------------------- C3
\* the recurrence result a run's public output row is compared with
TrueResult ==
    IF layout = "wide" THEN Term(wit_a, wit_b, LoopTo)
    ELSE Term(publics[1], publics[2], rows)

\* the cell synthesize exposes
TerminalCell == IF layout = "wide" THEN pre_c.cell ELSE b_cell.cell

\* C3: both layouts: after an honest synthesis the terminal cell is
\* copy-constrained to instance row 2, and whenever public input row 2
\* differs from the true recurrence result the check fails
\* (seed (1,1), 10 terms, public inputs [1,1,65] fail).
C3_NegativeDetection ==
    pc = "done" =>
        /\ << TerminalCell, InstCell(2) >> \in copies
        /\ (publics[3] # TrueResult => result = "fail")
        /\ (/\ publics = << 1, 1, 65 >>
            /\ layout = "wide" => (wit_a = 1 /\ wit_b = 1)
            /\ layout = "narrow" => rows = DemoRows) => result = "fail"

C3_Witness ==
    /\ NarrowDone
    /\ rows = DemoRows
    /\ publics = << 1, 1, 65 >>
    /\ TrueResult = 55
    /\ result = "fail"

\* ---------------------------------------------------------------- C6
\* C6 as stated: the selector-enabled addition rows of the wide layout are
\* exactly rows 0..N-2 for chain length N = 10.
C6_Original ==
    (layout = "wide" /\ Synthesized) => selector = 0 .. (LoopTo - 2)

\* C6 amended: wide layout, N = 10: row 0 is the "first row" region, each
\* later addition is a "next row" region of its own, one row high, started
\* at the next free row, with every assignment and copy target at offset 0;
\* the selector-enabled addition rows are exactly rows 0..N-3 (7 next rows
\* after the first row, 8 additions in all), and the c cell of the last of
\* them is the handle exposed at instance row 2.
C6_WideStateMachine ==
    layout = "wide" =>
        /\ \A k \in 1 .. Len(regions) :
              /\ regions[k].name = (IF k = 1 THEN "first row" ELSE "next row")
              /\ regions[k].start = k - 1
              /\ regions[k].offs = {0}
        /\ \A cell \in DOMAIN advice :
              \E k \in 1 .. Len(regions) : cell[2] = regions[k].start + 0
        /\ \A cp \in copies :
              cp[2][1] # InstCol =>
                 \E k \in 1 .. Len(regions) :
                    regions[k].name = "next row" /\ cp[2][2] = regions[k].start + 0
        /\ selector = { regions[k].start : k \in 1 .. Len(regions) }
        /\ Synthesized =>
              /\ Len(regions) = LoopTo - 2
              /\ selector = 0 .. (LoopTo - 3)
              /\ Cardinality({ k \in 1 .. Len(regions) :
                                 regions[k].name = "next row" }) = LoopTo - LoopFrom
              /\ pre_c.cell = Cell("c", LoopTo - 3)
              /\ << pre_c.cell, InstCell(WideOutRow) >> \in copies

C6_Witness ==
    /\ WideDone
    /\ Len(regions) = 8
    /\ selector = 0 .. 7
    /\ regions[8].name = "next row"
    /\ pre_c.cell = Cell("c", 7)

\* ---------------------------------------------------------------- C7
\* the advice cells a finished synthesis must have filled
UsedCells ==
    IF layout = "wide"
      THEN { Cell(col, r) : col \in {"a", "b", "c"}, r \in WideRows }
      ELSE { Cell("advice", r) : r \in 0 .. (rows - 1) }

\* C7: both layouts: at every point of a synthesis no advice cell has been
\* assigned more than once (plain assignments, copies into a cell and
\* copy-from-instance assignments all count), and once synthesis has
\* finished every cell the layout uses has been assigned exactly once.
C7_SingleAssignment ==
    /\ DOMAIN writes = DOMAIN advice
    /\ \A cell \in DOMAIN writes : writes[cell] = 1
    /\ Synthesized =>
          \A cell \in UsedCells : cell \in DOMAIN writes /\ writes[cell] = 1

C7_Witness ==
    /\ WideDone
    /\ Cardinality(DOMAIN writes) = 24
    /\ \A cell \in UsedCells : writes[cell] = 1

\* ---------------------------------------------------------------- C2
\* C2 as stated, at the chain lengths N >= 3 (those with a row 2..N-1 and a
\* row N-3): narrow layout, any p0, p1: rows 0 and 1 hold p0 and p1, every
\* row n in 2..N-1 holds value(n-2)+value(n-1), the terminal cell is row
\* N-1 holding the N-th term seeded by (p0, p1), and the check passes
\* exactly when public input row 2 equals that term (so the result is a
\* function of the seed and row 2).
C2_NarrowCorrect ==
    (NarrowDone /\ rows >= 3) =>
        /\ advice[Cell("advice", 0)] = publics[1]
        /\ advice[Cell("advice", 1)] = publics[2]
        /\ \A r \in 2 .. (rows - 1) :
              /\ Cell("advice", r) \in DOMAIN advice
              /\ advice[Cell("advice", r)] =
                    Add(advice[Cell("advice", r - 2)], advice[Cell("advice", r - 1)])
        /\ b_cell.cell = Cell("advice", rows - 1)
        /\ b_cell.value = Term(publics[1], publics[2], rows)
        /\ (result = "pass") <=> (publics[3] = Term(publics[1], publics[2], rows))

\* ---------------------------------------------------------------- C5
\* C5 as stated, at the chain lengths N >= 3: narrow layout: the selector
\* is enabled on exactly rows 0..N-3, so no enabled gate instance queries a
\* row at or beyond N.
C5_SelectorRows ==
    (layout = "narrow" /\ Synthesized /\ rows >= 3) =>
        /\ selector = 0 .. (rows - 3)
        /\ \A r \in selector : r + 2 < rows

\* ---------------------------------------------------------------- C8
\* what the constraint system and the assignment consist of
built == << columns, equality, gates, selector, advice, writes, copies, regions >>

SynthesisFinished ==
    /\ << TerminalCell, InstCell(2) >> \in copies
    /\ IF layout = "wide" THEN ~loop_continues(i) ELSE ~(n < rows)

NothingBuilt ==
    /\ columns = {} /\ equality = {} /\ gates = {} /\ selector = {}
    /\ advice = EmptyFn /\ writes = EmptyFn /\ copies = {} /\ regions = << >>

C8_Step ==
    \* a copy constraint copies from (or exposes) an advice cell that was
    \* assigned before the step that declares it
    /\ \A cp \in copies' \ copies :
          cp[1][1] # InstCol => cp[1] \in DOMAIN advice
    \* nothing is assigned, enabled or constrained before configure has run,
    \* and configure runs once, on an empty constraint system
    /\ (advice' # advice \/ copies' # copies \/ selector' # selector
          \/ regions' # regions)
          => (pc # "configure" /\ gates # {} /\ config' = config)
    /\ (config' # config) => (pc = "configure" /\ NothingBuilt)
    \* the check runs after synthesis and changes nothing that was built
    /\ (result' # result)
          => (pc = "check" /\ result = "none" /\ SynthesisFinished /\ built' = built)
    /\ Synthesized => built' = built
    /\ (result' # "none") => pc' = "done"

\* C8: both layouts: every copy constraint is declared only after the advice
\* cell it copies from (or exposes) has been assigned; every assignment and
\* copy constraint happens after configuration has finished; the check runs
\* only after synthesis has finished and changes neither the assignment nor
\* the constraints.
C8_Ordering == [][C8_Step]_vars

C8_Witness ==
    /\ pc = "done"
    /\ layout = "wide"
    /\ result = "pass"
    /\ << Cell("c", 0), Cell("b", 1) >> \in copies
    /\ << Cell("c", 7), InstCell(2) >> \in copies

\* ---------------------------------------------------------------- C9
\* C9: wide layout: with the constraint system and assignment a run has
\* built, the check gives the same outcome for every public input vector
\* that agrees with the run's on row 2: no copy constraint touches instance
\* row 0 or 1, and the seed cells of row 0 are the target of no copy
\* (so [x, y, 55] passes with seed (1,1) for every x, y).
C9_SeedNotBound ==
    WideDone =>
        /\ \A cp \in copies :
              /\ cp[1] \notin {InstCell(0), InstCell(1)}
              /\ cp[2] \notin {InstCell(0), InstCell(1), Cell("a", 0), Cell("b", 0)}
        /\ LET gatesOK == GatesHold(gates, selector, advice) IN
           \A x \in Field : \A y \in SeedVals \cup {x} :
              (gatesOK /\ CopiesHold(copies, advice, << x, y, publics[3] >>))
                 <=> (result = "pass")
        /\ (wit_a = 1 /\ wit_b = 1 /\ publics[3] = 55) => result = "pass"

C9_Witness ==
    /\ WideDone
    /\ wit_a = 1 /\ wit_b = 1
    /\ publics = << 0, 0, 55 >>
    /\ result = "pass"

\* ---------------------------------------------------------------- C4
WideColIndex(col) == IF col = "a" THEN 1 ELSE IF col = "b" THEN 2 ELSE 3

\* The wide assignment obtained when, in next row k, the copy into column
\* `link` ("a" or "b") takes the value v of some other cell instead of the
\* handle's; everything else is as synthesize does it: a of a next row takes
\* the value of pre_b (b of row 0, then c of the row before the previous
\* one), b takes the previous row's c, and c = a + b in every row.
RECURSIVE RedirectedRows(_, _, _, _)
RedirectedRows(seq, k, link, v) ==
    LET r == Len(seq) IN
    IF r = Len(regions) THEN seq
    ELSE LET av == IF r = 0 THEN wit_a
                   ELSE IF r = k /\ link = "a" THEN v
                   ELSE IF r = 1 THEN seq[1][2] ELSE seq[r - 1][3]
             bv == IF r = 0 THEN wit_b
                   ELSE IF r = k /\ link = "b" THEN v ELSE seq[r][3]
         IN RedirectedRows(Append(seq, << av, bv, Add(av, bv) >>), k, link, v)

Redirected(k, link, v) ==
    LET rs == RedirectedRows(<< >>, k, link, v) IN
    [cell \in DOMAIN advice |-> rs[cell[2] + 1][WideColIndex(cell[1])]]

\* the cells tied to `cell` by copy constraints, directly or through others
RECURSIVE CopyClass(_)
CopyClass(S) ==
    LET T == S \cup { cp[2] : cp \in { e \in copies : e[1] \in S } }
                \cup { cp[1] : cp \in { e \in copies : e[2] \in S } }
    IN IF T = S THEN S ELSE CopyClass(T)

\* the cell of the previous row that next row k's column `link` must equal
PrevCell(k, link) == IF link = "a" THEN Cell("b", k - 1) ELSE Cell("c", k - 1)

BrokenCopies(adv, inst) ==
    { cp \in copies : CellValue(cp[1], adv, inst) # CellValue(cp[2], adv, inst) }

\* C4: wide layout: in every next row k >= 1, a is tied by copy constraints
\* to the previous row's b and b to the previous row's c (a directly to the
\* handle pre_b, which is b of row 0 for k = 1 and c of row k-2 afterwards,
\* itself copied into the previous row's b); an assignment in which one of
\* these links carries a different value (a_k # b_{k-1} or b_k # c_{k-1}),
\* while every row satisfies a + b = c and public row 2 equals the terminal
\* cell, fails the check, and it fails on exactly the copy constraint into
\* that cell.  (The redirected assignment does not depend on the run's own
\* public row 2, so it is evaluated once per seed, in the run whose check
\* passed.)
C4_CopyIntegrity ==
    WideDone =>
        /\ \A k \in 1 .. (LoopTo - 3) : \A link \in {"a", "b"} :
              /\ PrevCell(k, link) \in CopyClass({ Cell(link, k) })
              /\ Cardinality({ cp \in copies : cp[2] = Cell(link, k) }) = 1
        /\ Redirected(1, "a", advice[Cell("a", 1)]) = advice
        /\ result = "pass" =>
              \A k \in 1 .. (LoopTo - 3) : \A link \in {"a", "b"} : \A v \in Field :
                 LET fa == Redirected(k, link, v)
                     inst == << publics[1], publics[2], fa[pre_c.cell] >>
                 IN  fa[Cell(link, k)] # fa[PrevCell(k, link)] =>
                        /\ GatesHold(gates, selector, fa)
                        /\ ~Verify(gates, selector, copies, fa, inst)
                        /\ BrokenCopies(fa, inst) = { cp \in copies : cp[2] = Cell(link, k) }

C4_Witness ==
    /\ WideDone
    /\ result = "pass"
    /\ wit_a = 1 /\ wit_b = 1
    /\ Redirected(3, "a", 9)[Cell("a", 3)] = 9
    /\ Redirected(3, "a", 9)[Cell("b", 2)] = 3
    /\ GatesHold(gates, selector, Redirected(3, "a", 9))
    /\ BrokenCopies(Redirected(3, "a", 9),
                    << 1, 1, Redirected(3, "a", 9)[pre_c.cell] >>)
          = { << Cell("c", 1), Cell("a", 3) >> }

\* ---------------------------------------------------------------- C10
\* an assignment of the narrow column, rows 0 .. Len(seq)-1
NarrowAssignment(seq) ==
    [cell \in { Cell("advice", r) : r \in 0 .. (Len(seq) - 1) } |-> seq[cell[2] + 1]]

\* the constraints completed by the last cell of the prefix (those that
\* mention it and no cell beyond it) hold
PrefixOK(seq) ==
    LET w == NarrowAssignment(seq)
        last == Cell("advice", Len(seq) - 1) IN
    /\ \A g \in gates : \A r \in selector :
          (last \in { Queried(g.a, r), Queried(g.b, r), Queried(g.c, r) }
             /\ GateCellsAssigned(g, r, w))
          => GatePoly(g, r, w) = 0
    /\ \A cp \in copies :
          (last \in { cp[1], cp[2] }
             /\ (cp[1][1] = InstCol \/ cp[1] \in DOMAIN w)
             /\ (cp[2][1] = InstCol \/ cp[2] \in DOMAIN w))
          => CellValue(cp[1], w, publics) = CellValue(cp[2], w, publics)

\* every assignment of the cells the honest run assigned that passes the
\* check, found row by row (a prefix that already violates a constraint
\* has no passing extension)
RECURSIVE Passing(_)
Passing(seq) ==
    IF Len(seq) = Cardinality(DOMAIN advice)
      THEN IF Verify(gates, selector, copies, NarrowAssignment(seq), publics)
             THEN {seq} ELSE {}
      ELSE UNION { Passing(Append(seq, v)) :
                     v \in { u \in Field : PrefixOK(Append(seq, u)) } }

\* C10: narrow layout, N >= 4 (N = 10 included): every row n in 2..N-1 is
\* the c operand of an enabled gate instance at row n-2; every assignment
\* of the column that passes the check follows the recurrence at every row
\* 2..N-1; and changing any single cell of rows 2..N-1 of the honest
\* assignment, the last two rows included, makes the check fail.
C10_NarrowSound ==
    (NarrowDone /\ rows >= 4) =>
        /\ \A r \in 2 .. (rows - 1) : (r - 2) \in selector
        /\ \A seq \in Passing(<< >>) : \A r \in 2 .. (rows - 1) :
              seq[r + 1] = Add(seq[r - 1], seq[r])
        /\ \A r \in 2 .. (rows - 1) : \A v \in Field :
              v # advice[Cell("advice", r)] =>
                 ~Verify(gates, selector, copies,
                         Put(advice, Cell("advice", r), v), publics)
        /\ result = "pass" => Cardinality(Passing(<< >>)) = 1

C10_Witness ==
    /\ NarrowDone
    /\ rows = DemoRows
    /\ publics = << 1, 1, 55 >>
    /\ result = "pass"
    /\ Passing(<< >>) = { << 1, 1, 2, 3, 5, 8, 13, 21, 34, 55 >> }
    /\ ~Verify(gates, selector, copies, Put(advice, Cell("advice", 9), 54), publics)

====
